---- MODULE Spec2Model ----
(***************************************************************************)
(* Model of the CV extraction pipeline of ai_cv_parsing:                   *)
(*   - parse_json_response (utils/llm_analyzer.py): the multi-level JSON   *)
(*     recovery applied to raw model output;                               *)
(*   - CVExtractedFields: the pydantic schema the parsed value is          *)
(*     validated against;                                                  *)
(*   - extract_structured_cv_data: the three nested strategies             *)
(*     (structured output, JsonOutputParser, manual parsing).              *)
(*                                                                         *)
(* A text is a sequence of tokens.  A token stands for a character or for  *)
(* a run of characters that the regular expressions and the JSON grammar   *)
(* treat as a unit:                                                        *)
(*    "{" "}" "[" "]"   the bracket characters                             *)
(*    "F"               a fence, three backticks                           *)
(*    "j"               the fence label json                               *)
(*    "w"               a whitespace character                             *)
(*    "p"               a prose character (no bracket, fence, whitespace)  *)
(*    "n"               the digit 7 (a run of them is one number literal)  *)
(*    "k"               an object key with its colon, "k":                 *)
(*    "ky" "ks" "kl"    the keys "years_of_employment":, "skills":,        *)
(*                      "languages":                                       *)
(*    ","               the comma                                          *)
(*    "s" "q"           the string literals "Go" and "2020"                *)
(*    "R" "C" "B"       the member lists of three objects, see MemberDict  *)
(***************************************************************************)
EXTENDS Integers, Sequences, FiniteSets, TLC

VARIABLES
    pc,          \* position of extract_structured_cv_data
    calls,       \* the model calls issued so far: the strategy of each, in order
    inflight,    \* number of model calls issued and not yet answered
    respCall,    \* index in calls of the response currently held (0: none)
    failed,      \* the strategies whose attempt raised an exception
    lastFailure, \* strategy and kind of the exception raised last
    succeededBy, \* the strategy whose return statement ran (0: none)
    result,      \* the dictionary returned to the caller
    error,       \* the exception that left extract_structured_cv_data
    npc,         \* position of parse_json_response
    text,        \* argument of parse_json_response
    normFrom,    \* index in calls of the response whose content is text
    attempted,   \* levels of parse_json_response entered so far
    nfailed,     \* levels left without a return: no match, or JSONDecodeError
    patterns,    \* the level 3 patterns searched so far, in order
    ntier,       \* level whose return statement ran (0: none)
    nval,        \* value returned by parse_json_response
    excerpt,     \* text carried by the ValueError of level 4
    other,       \* the variables above of a second extraction, while the
                 \* first one runs (None: there is one extraction only)
    turn,        \* which of two extractions is running (0: there is one only)
    upc,         \* position of upload_pdf and read_and_validate_file
    ufile,       \* the upload of the request being handled: filename and bytes
    ucontent,    \* content, as file.read() gave it
    utext,       \* extracted_text
    ucalls,      \* what the handler has called for this request, in order
    uresp,       \* the response to the request
    uprev        \* the request answered before this one: upload and status

orchVars == <<pc, calls, inflight, respCall, failed, lastFailure, succeededBy, result, error>>
normVars == <<npc, text, normFrom, attempted, nfailed, patterns, ntier, nval, excerpt>>
pairVars == <<other, turn>>
uploadVars == <<upc, ufile, ucontent, utext, ucalls, uresp, uprev>>
vars == <<orchVars, normVars, pairVars, uploadVars>>

-----------------------------------------------------------------------------
(* Bounds of the model and constants of the program                        *)

\* chunks per text over CoreChunks
MaxChunks == 5
\* chunks per text over WideChunks
MaxWide == 3
\* items per list of a parsed value handed to the schema by strategy 2
MaxItems == 1
\* items per list of a record that is serialized
MaxRecItems == 2
\* text[:200] in the ValueError of level 4
ExcerptLen == 200

-----------------------------------------------------------------------------
(* JSON values                                                             *)

None == [t |-> "none"]
Missing == [t |-> "missing"]
VNull == [t |-> "null"]
VInt(n) == [t |-> "int", n |-> n]
VStr(s) == [t |-> "str", s |-> s]
VList(items) == [t |-> "list", items |-> items]
VDict(y, s, l, x) ==
    [t |-> "dict", years_of_employment |-> y, skills |-> s, languages |-> l, extra |-> x]

\* The objects whose member lists are the tokens R, C and B.
\*   R: {"years_of_employment":[2020],"skills":["Go"],"languages":["English"]}
\*   C: {"years_of_employment":["2020"],"skills":["Go"],"languages":["English"]}
\*   B: {"years_of_employment":"2020","skills":[],"languages":[]}
MemberDict(tok) ==
    CASE tok = "R" -> VDict(VList(<<VInt(2020)>>), VList(<<VStr("Go")>>),
                            VList(<<VStr("English")>>), Missing)
      [] tok = "C" -> VDict(VList(<<VStr("2020")>>), VList(<<VStr("Go")>>),
                            VList(<<VStr("English")>>), Missing)
      [] tok = "B" -> VDict(VStr("2020"), VList(<<>>), VList(<<>>), Missing)

MemberToks == {"R", "C", "B"}

-----------------------------------------------------------------------------
(* json.loads on token sequences                                           *)

JsonFail == [ok |-> FALSE, val |-> None, next |-> 0]

RECURSIVE SkipWs(_, _)
\* index of the first non-whitespace token at or after i (Len(s)+1 if none)
SkipWs(s, i) ==
    IF i <= Len(s) /\ s[i] = "w" THEN SkipWs(s, i + 1) ELSE i

RECURSIVE SkipWsBack(_, _)
\* index of the last non-whitespace token at or before i (0 if none)
SkipWsBack(s, i) ==
    IF i >= 1 /\ s[i] = "w" THEN SkipWsBack(s, i - 1) ELSE i

\* str.strip(): leading and trailing whitespace removed
Strip(s) ==
    LET a == SkipWs(s, 1)
        b == SkipWsBack(s, Len(s))
    IN IF a > b THEN <<>> ELSE SubSeq(s, a, b)

RECURSIVE DigitsEnd(_, _)
\* index after the run of digits that starts at i
DigitsEnd(s, i) ==
    IF i <= Len(s) /\ s[i] = "n" THEN DigitsEnd(s, i + 1) ELSE i

RECURSIVE Sevens(_)
\* the number written with m digits 7
Sevens(m) ==
    IF m <= 1 THEN 7 ELSE Sevens(m - 1) * 10 + 7

\* the keys of an object, each token a key with its colon
KeyToks == {"ky", "ks", "kl", "k"}

\* the object acc with the value v under the key of token key
SetKey(acc, key, v) ==
    CASE key = "ky" -> [acc EXCEPT !.years_of_employment = v]
      [] key = "ks" -> [acc EXCEPT !.skills = v]
      [] key = "kl" -> [acc EXCEPT !.languages = v]
      [] key = "k" -> [acc EXCEPT !.extra = v]

\* the object acc with the three members of d
SetMembers(acc, d) ==
    [acc EXCEPT !.years_of_employment = d.years_of_employment,
                !.skills = d.skills,
                !.languages = d.languages]

RECURSIVE ParseValue(_, _)
RECURSIVE ParseMembers(_, _, _)
RECURSIVE ParseItems(_, _, _)

\* the members of an object from s[i] on, up to its "}": a later member
\* replaces an earlier one of the same key
ParseMembers(s, i, acc) ==
    IF i > Len(s) THEN JsonFail
    ELSE
        LET m == IF s[i] \in MemberToks
                 THEN [ok |-> TRUE, val |-> SetMembers(acc, MemberDict(s[i])), next |-> i + 1]
                 ELSE IF s[i] \in KeyToks
                 THEN LET v == ParseValue(s, SkipWs(s, i + 1))
                      IN IF v.ok
                         THEN [ok |-> TRUE, val |-> SetKey(acc, s[i], v.val), next |-> v.next]
                         ELSE JsonFail
                 ELSE JsonFail
            e == SkipWs(s, m.next)
        IN IF ~m.ok \/ e > Len(s) THEN JsonFail
           ELSE IF s[e] = "}" THEN [ok |-> TRUE, val |-> m.val, next |-> e + 1]
           ELSE IF s[e] = "," THEN ParseMembers(s, SkipWs(s, e + 1), m.val)
           ELSE JsonFail

\* ParseItems for arrays of one item only
ParseItemsSingle(s, i, acc) ==
    LET v == ParseValue(s, i)
        e == SkipWs(s, v.next)
    IN IF ~v.ok \/ e > Len(s) THEN JsonFail
       ELSE IF s[e] = "]" THEN [ok |-> TRUE, val |-> VList(Append(acc, v.val)), next |-> e + 1]
       ELSE JsonFail

\* the items of an array from s[i] on, up to its "]"
ParseItems(s, i, acc) ==
    LET v == ParseValue(s, i)
        e == SkipWs(s, v.next)
    IN IF ~v.ok \/ e > Len(s) THEN JsonFail
       ELSE IF s[e] = "]" THEN [ok |-> TRUE, val |-> VList(Append(acc, v.val)), next |-> e + 1]
       ELSE IF s[e] = "," THEN ParseItems(s, SkipWs(s, e + 1), Append(acc, v.val))
       ELSE JsonFail

\* the JSON value starting at s[i]: [ok, val, next], next the index after it
ParseValue(s, i) ==
    IF i > Len(s) THEN JsonFail
    ELSE IF s[i] = "n" THEN
        [ok |-> TRUE, val |-> VInt(Sevens(DigitsEnd(s, i) - i)), next |-> DigitsEnd(s, i)]
    ELSE IF s[i] = "s" THEN [ok |-> TRUE, val |-> VStr("Go"), next |-> i + 1]
    ELSE IF s[i] = "q" THEN [ok |-> TRUE, val |-> VStr("2020"), next |-> i + 1]
    ELSE IF s[i] = "{" THEN
        LET j == SkipWs(s, i + 1)
        IN IF j > Len(s) THEN JsonFail
           ELSE IF s[j] = "}" THEN
               [ok |-> TRUE, val |-> VDict(Missing, Missing, Missing, Missing), next |-> j + 1]
           ELSE ParseMembers(s, j, VDict(Missing, Missing, Missing, Missing))
    ELSE IF s[i] = "[" THEN
        LET j == SkipWs(s, i + 1)
        IN IF j > Len(s) THEN JsonFail
           ELSE IF s[j] = "]" THEN [ok |-> TRUE, val |-> VList(<<>>), next |-> j + 1]
           ELSE ParseItems(s, j, <<>>)
    ELSE JsonFail

\* json.loads(s): the value when the whole of s is one JSON value, else
\* JSONDecodeError (ok = FALSE)
JsonLoads(s) ==
    LET r == ParseValue(s, SkipWs(s, 1))
    IN IF r.ok /\ SkipWs(s, r.next) > Len(s)
       THEN [ok |-> TRUE, val |-> r.val]
       ELSE [ok |-> FALSE, val |-> None]

-----------------------------------------------------------------------------
(* The regular expressions of parse_json_response                          *)

NoMatch == [found |-> FALSE, from |-> 0, to |-> 0]

Indices(s, tok) == {i \in 1..Len(s) : s[i] = tok}
MinOf(S) == CHOOSE x \in S : \A y \in S : x <= y
MaxOf(S) == CHOOSE x \in S : \A y \in S : x >= y

\* GreedySearch as re.match would do it: only at the start of the text
GreedySearchAnchored(s) ==
    LET closes == Indices(s, "}")
    IN IF s = <<>> \/ s[1] # "{" \/ closes = {}
       THEN NoMatch
       ELSE [found |-> TRUE, from |-> 1, to |-> MaxOf(closes)]

\* re.search(r'\{.*\}', text, re.DOTALL): leftmost "{" that a "}" follows,
\* extended greedily to the last "}"
GreedySearch(s) ==
    LET opens == Indices(s, "{")
        closes == Indices(s, "}")
    IN IF opens = {} \/ closes = {} \/ MaxOf(closes) < MinOf(opens)
       THEN NoMatch
       ELSE [found |-> TRUE, from |-> MinOf(opens), to |-> MaxOf(closes)]

\* a "}" at e closes the group when \s*``` follows it
ClosesAt(s, e) ==
    /\ e <= Len(s)
    /\ s[e] = "}"
    /\ SkipWs(s, e + 1) <= Len(s)
    /\ s[SkipWs(s, e + 1)] = "F"

\* FenceMatchAt for patterns without \s* after the opening fence
FenceMatchAtNoSpace(s, i, labelled) ==
    LET a == IF labelled THEN i + 2 ELSE i + 1
        lead == /\ s[i] = "F"
                /\ labelled => (i + 1 <= Len(s) /\ s[i + 1] = "j")
                /\ a <= Len(s)
                /\ s[a] = "{"
        ends == {e \in (a + 1)..Len(s) : ClosesAt(s, e)}
    IN IF lead /\ ends # {}
       THEN [found |-> TRUE, from |-> a, to |-> MinOf(ends)]
       ELSE NoMatch

\* the match of <fence>\s*(\{.*?\})\s*``` that starts at i, where the opening
\* fence is labelled json or bare: group 1 runs from the "{" to the first "}"
\* that \s*``` follows
FenceMatchAt(s, i, labelled) ==
    LET a == SkipWs(s, IF labelled THEN i + 2 ELSE i + 1)
        lead == /\ s[i] = "F"
                /\ labelled => (i + 1 <= Len(s) /\ s[i + 1] = "j")
                /\ a <= Len(s)
                /\ s[a] = "{"
        ends == {e \in (a + 1)..Len(s) : ClosesAt(s, e)}
    IN IF lead /\ ends # {}
       THEN [found |-> TRUE, from |-> a, to |-> MinOf(ends)]
       ELSE NoMatch

\* re.search(pattern, text, re.DOTALL) for the two patterns of level 3
FenceSearch(s, labelled) ==
    LET starts == {i \in 1..Len(s) : FenceMatchAt(s, i, labelled).found}
    IN IF starts = {} THEN NoMatch ELSE FenceMatchAt(s, MinOf(starts), labelled)

Group(s, m) == SubSeq(s, m.from, m.to)

\* Excerpt without the cut
ExcerptWhole(s) == s

\* text[:200]
Excerpt(s) == SubSeq(s, 1, IF Len(s) < ExcerptLen THEN Len(s) ELSE ExcerptLen)

-----------------------------------------------------------------------------
(* The texts and values the model is run on                                *)

RECURSIVE Concats(_, _)
\* the concatenations of at most n chunks of C
Concats(C, n) ==
    IF n = 0 THEN {<<>>}
    ELSE LET prev == Concats(C, n - 1)
         IN prev \cup {c \o t : c \in C, t \in prev}

CoreChunks ==
    {<<"{">>, <<"}">>, <<"{", "R", "}">>, <<"F", "j">>, <<"F">>, <<"w">>, <<"p">>}

WideChunks ==
    CoreChunks \cup {<<"{", "B", "}">>, <<"{", "C", "}">>, <<"{", "k">>,
                     <<"{", "k", "{", "R", "}", "}">>, <<"n">>, <<"[">>, <<"]">>}

Prose(n) == [i \in 1..n |-> "p"]

\* texts around the length at which text[:200] starts to cut
LongTexts ==
    {Prose(n) : n \in (ExcerptLen - 1)..(ExcerptLen + 1)}
        \cup {<<"{">> \o Prose(n) : n \in (ExcerptLen - 1)..(ExcerptLen + 1)}

\* arrays, well formed or not
JsonArrays ==
    {<<"[", "]">>, <<"[", "n", "]">>, <<"[", "n", ",", "s", "]">>,
     <<"[", "n", "w", "n", "]">>, <<"[", "n", ",", "]">>, <<"[", ",", "n", "]">>,
     <<"[", "[", "q", "]", ",", "n", "n", "]">>, <<"[", "n", ",", "s">>, <<"s">>}

\* objects of two members, well formed or not, and the arrays alone
JsonTexts ==
    JsonArrays \cup
    {<<"{">> \o k1 \o v1 \o sep \o k2 \o v2 \o close :
        k1 \in {<<"ky">>, <<>>}, v1 \in JsonArrays,
        sep \in {<<",">>, <<",", "w">>, <<>>, <<",", ",">>},
        k2 \in {<<"ks">>, <<"ky">>}, v2 \in JsonArrays,
        close \in {<<"}">>, <<",", "}">>}}

\* the dictionaries model_dump() can give, with lists of bounded length
RecLists(S) == UNION {[1..n -> S] : n \in 0..MaxRecItems}
Records ==
    {[years_of_employment |-> y, skills |-> sk, languages |-> l] :
        y \in RecLists({VInt(7), VInt(77)}),
        sk \in RecLists({VStr("Go"), VStr("2020")}),
        l \in RecLists({VStr("Go"), VStr("2020")})}

RECURSIVE Digits(_)
\* the decimal digits of a number written with digits 7
Digits(n) ==
    IF n < 10 THEN <<"n">> ELSE Digits(n \div 10) \o <<"n">>

SerItem(e) ==
    IF e.t = "int" THEN Digits(e.n)
    ELSE IF e.s = "Go" THEN <<"s">> ELSE <<"q">>

RECURSIVE SerItems(_)
SerItems(items) ==
    IF items = <<>> THEN <<>>
    ELSE IF Len(items) = 1 THEN SerItem(items[1])
    ELSE SerItem(items[1]) \o <<",", "w">> \o SerItems(Tail(items))

\* json.dumps(rec): keys in the order of the fields, ", " and ": " as
\* separators
Serialize(rec) ==
    <<"{", "ky", "w", "[">> \o SerItems(rec.years_of_employment)
        \o <<"]", ",", "w", "ks", "w", "[">> \o SerItems(rec.skills)
        \o <<"]", ",", "w", "kl", "w", "[">> \o SerItems(rec.languages)
        \o <<"]", "}">>

\* a fenced object after a stray brace, with or without a second fence
FencedTexts ==
    {pre \o open \o obj \o <<"F">> \o post :
        pre \in {<<"{">>, <<"}">>},
        open \in {<<"F", "j">>, <<"F", "j", "w">>, <<"F">>},
        obj \in {<<"{", "R", "}">>, <<"{", "C", "}">>, <<"{", "B", "}">>, <<"{", "p", "}">>},
        post \in {<<>>, <<"F", "{", "R", "}", "F">>}}

CoreTexts == Concats(CoreChunks, MaxChunks)
WideTexts == Concats(WideChunks, MaxWide)
SerTexts == {Serialize(rec) : rec \in Records}
NormTexts == CoreTexts \cup WideTexts \cup LongTexts
\* texts of a given shape: JSON with commas, serialized records, fences
ShapedTexts == JsonTexts \cup SerTexts \cup FencedTexts

OrchTexts == WideTexts \cup FencedTexts \cup LongTexts

-----------------------------------------------------------------------------
(* parse_json_response                                                     *)

NormIdle ==
    /\ npc = "idle"
    /\ text = <<>>
    /\ normFrom = 0
    /\ attempted = {}
    /\ nfailed = {}
    /\ patterns = <<>>
    /\ ntier = 0
    /\ nval = None
    /\ excerpt = <<>>

\* return of the value a level parsed
Return(level, v) ==
    /\ npc' = "ret"
    /\ ntier' = level
    /\ nval' = v

\* Level 1: json.loads(text.strip())
Level1 ==
    /\ npc = "t1"
    /\ attempted' = attempted \cup {1}
    /\ LET r == JsonLoads(Strip(text))
       IN IF r.ok
          THEN /\ Return(1, r.val)
               /\ UNCHANGED nfailed
          ELSE /\ npc' = "t2"
               /\ nfailed' = nfailed \cup {1}
               /\ UNCHANGED <<ntier, nval>>
    /\ UNCHANGED <<text, normFrom, patterns, excerpt>>
    /\ UNCHANGED orchVars
    /\ UNCHANGED pairVars
    /\ UNCHANGED uploadVars

\* Level2 where a span that does not parse ends the search
Level2Stop ==
    /\ npc = "t2"
    /\ attempted' = attempted \cup {2}
    /\ LET m == GreedySearch(text)
           r == IF m.found THEN JsonLoads(Strip(Group(text, m))) ELSE JsonFail
       IN IF m.found /\ r.ok
          THEN /\ Return(2, r.val)
               /\ UNCHANGED nfailed
          ELSE /\ npc' = IF m.found THEN "t4" ELSE "t3a"
               /\ nfailed' = nfailed \cup {2}
               /\ UNCHANGED <<ntier, nval>>
    /\ UNCHANGED <<text, normFrom, patterns, excerpt>>
    /\ UNCHANGED orchVars
    /\ UNCHANGED pairVars
    /\ UNCHANGED uploadVars

\* Level 2: the greedy brace span, parsed when there is one
Level2 ==
    /\ npc = "t2"
    /\ attempted' = attempted \cup {2}
    /\ LET m == GreedySearch(text)
           r == IF m.found THEN JsonLoads(Strip(Group(text, m))) ELSE JsonFail
       IN IF m.found /\ r.ok
          THEN /\ Return(2, r.val)
               /\ UNCHANGED nfailed
          ELSE /\ npc' = "t3a"
               /\ nfailed' = nfailed \cup {2}
               /\ UNCHANGED <<ntier, nval>>
    /\ UNCHANGED <<text, normFrom, patterns, excerpt>>
    /\ UNCHANGED orchVars
    /\ UNCHANGED pairVars
    /\ UNCHANGED uploadVars

\* Level3Json that gives up when the content of the json fence does not parse
Level3JsonNoContinue ==
    /\ npc = "t3a"
    /\ attempted' = attempted \cup {3}
    /\ patterns' = Append(patterns, "json")
    /\ LET m == FenceSearch(text, TRUE)
           r == IF m.found THEN JsonLoads(Strip(Group(text, m))) ELSE JsonFail
       IN IF m.found /\ r.ok
          THEN /\ Return(3, r.val)
               /\ UNCHANGED nfailed
          ELSE /\ npc' = IF m.found THEN "t4" ELSE "t3b"
               /\ nfailed' = IF m.found THEN nfailed \cup {3} ELSE nfailed
               /\ UNCHANGED <<ntier, nval>>
    /\ UNCHANGED <<text, normFrom, excerpt>>
    /\ UNCHANGED orchVars
    /\ UNCHANGED pairVars
    /\ UNCHANGED uploadVars

\* Level 3, first pattern: the fence labelled json
Level3Json ==
    /\ npc = "t3a"
    /\ attempted' = attempted \cup {3}
    /\ patterns' = Append(patterns, "json")
    /\ LET m == FenceSearch(text, TRUE)
           r == IF m.found THEN JsonLoads(Strip(Group(text, m))) ELSE JsonFail
       IN IF m.found /\ r.ok
          THEN Return(3, r.val)
          ELSE /\ npc' = "t3b"
               /\ UNCHANGED <<ntier, nval>>
    /\ UNCHANGED <<text, normFrom, nfailed, excerpt>>
    /\ UNCHANGED orchVars
    /\ UNCHANGED pairVars
    /\ UNCHANGED uploadVars

\* Level 3, second pattern: the bare fence
Level3Generic ==
    /\ npc = "t3b"
    /\ patterns' = Append(patterns, "generic")
    /\ LET m == FenceSearch(text, FALSE)
           r == IF m.found THEN JsonLoads(Strip(Group(text, m))) ELSE JsonFail
       IN IF m.found /\ r.ok
          THEN /\ Return(3, r.val)
               /\ UNCHANGED nfailed
          ELSE /\ npc' = "t4"
               /\ nfailed' = nfailed \cup {3}
               /\ UNCHANGED <<ntier, nval>>
    /\ UNCHANGED <<text, normFrom, attempted, excerpt>>
    /\ UNCHANGED orchVars
    /\ UNCHANGED pairVars
    /\ UNCHANGED uploadVars

\* Level 4: raise ValueError with text[:200]
Level4 ==
    /\ npc = "t4"
    /\ attempted' = attempted \cup {4}
    /\ npc' = "raise"
    /\ excerpt' = Excerpt(text)
    /\ UNCHANGED <<text, normFrom, nfailed, patterns, ntier, nval>>
    /\ UNCHANGED orchVars
    /\ UNCHANGED pairVars
    /\ UNCHANGED uploadVars

ParseJsonResponse ==
    \/ Level1
    \/ Level2
    \/ Level3Json
    \/ Level3Generic
    \/ Level4

-----------------------------------------------------------------------------
(* CVExtractedFields: validation of a parsed value, and model_dump()       *)

NumericStrings == {"2020"}
IntOf(s) == CASE s = "2020" -> 2020

\* an item of a List[int] field: an int, or a string of digits, which
\* pydantic converts
IntItemOk(e) == e.t = "int" \/ (e.t = "str" /\ e.s \in NumericStrings)
IntItem(e) == IF e.t = "int" THEN e ELSE VInt(IntOf(e.s))

\* an item of a List[str] field: a string, nothing else
StrItemOk(e) == e.t = "str"

\* years_of_employment: List[int]
YearsOk(f) == f.t = "list" /\ \A i \in DOMAIN f.items : IntItemOk(f.items[i])
\* skills: List[str], languages: List[str]
StrListOk(f) == f.t = "list" /\ \A i \in DOMAIN f.items : StrItemOk(f.items[i])

\* Validate with the items of the lists left unchecked
ValidateNoItemCheck(v) ==
    IF v.t # "dict" THEN [ok |-> FALSE, kind |-> "TypeError", rec |-> None]
    ELSE IF v.years_of_employment.t = "list" /\ v.skills.t = "list" /\ v.languages.t = "list"
    THEN [ok |-> TRUE, kind |-> "none",
          rec |-> [years_of_employment |-> v.years_of_employment.items,
                   skills |-> v.skills.items,
                   languages |-> v.languages.items]]
    ELSE [ok |-> FALSE, kind |-> "ValidationError", rec |-> None]

\* CVExtractedFields(**v).model_dump(): TypeError when v is no mapping,
\* ValidationError when a field is missing or of the wrong type, else the
\* three validated fields and nothing else
Validate(v) ==
    IF v.t # "dict" THEN [ok |-> FALSE, kind |-> "TypeError", rec |-> None]
    ELSE IF YearsOk(v.years_of_employment) /\ StrListOk(v.skills) /\ StrListOk(v.languages)
    THEN [ok |-> TRUE, kind |-> "none",
          rec |-> [years_of_employment |->
                       [i \in DOMAIN v.years_of_employment.items |->
                           IntItem(v.years_of_employment.items[i])],
                   skills |-> v.skills.items,
                   languages |-> v.languages.items]]
    ELSE [ok |-> FALSE, kind |-> "ValidationError", rec |-> None]

\* the values a model can be made to answer with
Items == {VInt(2020), VStr("2020"), VStr("Go"), VNull}
Lists == UNION {[1..n -> Items] : n \in 0..MaxItems}
FieldVals == {Missing, VNull, VStr("2020")} \cup {VList(l) : l \in Lists}
DictVals ==
    {VDict(y, s, l, x) : y \in FieldVals, s \in FieldVals, l \in FieldVals,
                         x \in {Missing, VInt(7)}}
JsonVals == DictVals \cup {VInt(7), VNull, VStr("Go"), VList(<<>>)}

\* what two extractions running together get as answers: a record, a value
\* that is no object, a text without JSON, the text of a record, and that
\* text after a word
PairVals == {MemberDict("R"), VList(<<>>)}
PairTexts == {<<"p">>, <<"{", "R", "}">>, <<"p", "{", "R", "}">>}

\* the values and texts the model's answers are drawn from
Answers == IF turn = 0 THEN JsonVals ELSE PairVals
AnswerTexts == IF turn = 0 THEN OrchTexts ELSE PairTexts

-----------------------------------------------------------------------------
(* extract_structured_cv_data                                              *)

Fail(strategy, kind, next) ==
    /\ failed' = failed \cup {strategy}
    /\ lastFailure' = [strategy |-> strategy, kind |-> kind]
    /\ pc' = next
    /\ UNCHANGED <<succeededBy, result, error>>

Succeed(strategy, rec) ==
    /\ succeededBy' = strategy
    /\ result' = rec
    /\ pc' = "returned"
    /\ UNCHANGED <<failed, lastFailure, error>>

\* the exception leaves extract_structured_cv_data
Raise(strategy, kind, detail) ==
    /\ failed' = failed \cup {strategy}
    /\ lastFailure' = [strategy |-> strategy, kind |-> kind]
    /\ error' = [type |-> kind, strategy |-> strategy, detail |-> detail]
    /\ pc' = "failed"
    /\ UNCHANGED <<succeededBy, result>>

Issue(strategy, next) ==
    /\ calls' = Append(calls, strategy)
    /\ inflight' = inflight + 1
    /\ pc' = next
    /\ UNCHANGED <<respCall, failed, lastFailure, succeededBy, result, error>>

Answered ==
    /\ inflight' = inflight - 1
    /\ respCall' = Len(calls)
    /\ UNCHANGED calls

\* get_llm, the prompt, with_structured_output and the call of
\* structured_llm.invoke
S1Issue ==
    /\ pc = "start"
    /\ Issue(1, "s1_wait")
    /\ UNCHANGED normVars
    /\ UNCHANGED pairVars
    /\ UNCHANGED uploadVars

\* S1Respond with the exceptions of strategy 1 left uncaught
S1RespondSurface ==
    /\ pc = "s1_wait"
    /\ Answered
    /\ \/ Raise(1, "ModelCallError", <<>>)
       \/ Fail(1, "AttributeError", "s2")
       \/ \E v \in Answers :
             IF Validate(v).ok
             THEN Succeed(1, Validate(v).rec)
             ELSE Fail(1, "OutputParserException", "s2")
    /\ UNCHANGED normVars
    /\ UNCHANGED pairVars
    /\ UNCHANGED uploadVars

\* structured_llm.invoke ends: it raises, or gives None, or gives the
\* instance the schema made of the model's answer; result.model_dump()
S1Respond ==
    /\ pc = "s1_wait"
    /\ Answered
    /\ \/ Fail(1, "ModelCallError", "s2")
       \/ Fail(1, "AttributeError", "s2")
       \/ \E v \in Answers :
             IF Validate(v).ok
             THEN Succeed(1, Validate(v).rec)
             ELSE Fail(1, "OutputParserException", "s2")
    /\ UNCHANGED normVars
    /\ UNCHANGED pairVars
    /\ UNCHANGED uploadVars

\* S2Issue without waiting for strategy 1 to end
S2IssueEager ==
    /\ pc \in {"s1_wait", "s2"}
    /\ Issue(2, "s2_wait")
    /\ UNCHANGED normVars
    /\ UNCHANGED pairVars
    /\ UNCHANGED uploadVars

\* first handler: JsonOutputParser and the call of llm.invoke
S2Issue ==
    /\ pc = "s2"
    /\ Issue(2, "s2_wait")
    /\ UNCHANGED normVars
    /\ UNCHANGED pairVars
    /\ UNCHANGED uploadVars

\* S2Respond with the exceptions of strategy 2 left uncaught
S2RespondNoFallback ==
    /\ pc = "s2_wait"
    /\ Answered
    /\ \/ Raise(2, "ModelCallError", <<>>)
       \/ Raise(2, "OutputParserException", <<>>)
       \/ \E v \in Answers :
             IF Validate(v).ok
             THEN Succeed(2, Validate(v).rec)
             ELSE Raise(2, Validate(v).kind, <<>>)
    /\ UNCHANGED normVars
    /\ UNCHANGED pairVars
    /\ UNCHANGED uploadVars

\* S2Respond where the set of failed strategies is one object that all the
\* extractions write to
S2RespondShared ==
    /\ pc = "s2_wait"
    /\ Answered
    /\ \/ Fail(2, "ModelCallError", "s3")
       \/ Fail(2, "OutputParserException", "s3")
       \/ \E v \in Answers :
             IF Validate(v).ok
             THEN Succeed(2, Validate(v).rec)
             ELSE Fail(2, Validate(v).kind, "s3")
    /\ UNCHANGED normVars
    /\ turn' = turn
    /\ other' = IF turn = 0 THEN other ELSE [other EXCEPT !.failed = failed']
    /\ UNCHANGED uploadVars

\* llm.invoke ends: it raises, or parser.parse raises, or parser.parse gives
\* a value, which CVExtractedFields validates
S2Respond ==
    /\ pc = "s2_wait"
    /\ Answered
    /\ \/ Fail(2, "ModelCallError", "s3")
       \/ Fail(2, "OutputParserException", "s3")
       \/ \E v \in Answers :
             IF Validate(v).ok
             THEN Succeed(2, Validate(v).rec)
             ELSE Fail(2, Validate(v).kind, "s3")
    /\ UNCHANGED normVars
    /\ UNCHANGED pairVars
    /\ UNCHANGED uploadVars

\* S3Issue that keeps the response of strategy 2 instead of calling the model
S3IssueReuse ==
    /\ pc = "s3"
    /\ pc' = "s3_wait"
    /\ inflight' = inflight + 1
    /\ UNCHANGED <<calls, respCall, failed, lastFailure, succeededBy, result, error>>
    /\ UNCHANGED normVars
    /\ UNCHANGED pairVars
    /\ UNCHANGED uploadVars

\* second handler: the call of llm.invoke
S3Issue ==
    /\ pc = "s3"
    /\ Issue(3, "s3_wait")
    /\ UNCHANGED normVars
    /\ UNCHANGED pairVars
    /\ UNCHANGED uploadVars

\* llm.invoke ends: it raises, or parse_json_response is called on
\* response.content
S3Respond ==
    /\ pc = "s3_wait"
    /\ Answered
    /\ \/ /\ Raise(3, "ModelCallError", <<>>)
          /\ UNCHANGED normVars
       \/ /\ \E t \in AnswerTexts : text' = t
          /\ npc' = "t1"
          /\ normFrom' = Len(calls)
          /\ pc' = "s3_parse"
          /\ UNCHANGED <<failed, lastFailure, succeededBy, result, error>>
          /\ UNCHANGED <<attempted, nfailed, patterns, ntier, nval, excerpt>>
    /\ UNCHANGED pairVars
    /\ UNCHANGED uploadVars

\* S3Validate where a value the schema rejects is reported as a parse failure
S3ValidateWrap ==
    /\ pc = "s3_parse"
    /\ \/ /\ npc = "raise"
          /\ Raise(3, "ValueError", excerpt)
       \/ /\ npc = "ret"
          /\ IF Validate(nval).ok
             THEN Succeed(3, Validate(nval).rec)
             ELSE Raise(3, "ValueError", Excerpt(text))
    /\ UNCHANGED <<calls, inflight, respCall>>
    /\ UNCHANGED normVars
    /\ UNCHANGED pairVars
    /\ UNCHANGED uploadVars

\* parse_json_response ends: its ValueError leaves the function, or
\* CVExtractedFields validates the value it returned
S3Validate ==
    /\ pc = "s3_parse"
    /\ \/ /\ npc = "raise"
          /\ Raise(3, "ValueError", excerpt)
       \/ /\ npc = "ret"
          /\ IF Validate(nval).ok
             THEN Succeed(3, Validate(nval).rec)
             ELSE Raise(3, Validate(nval).kind, <<>>)
    /\ UNCHANGED <<calls, inflight, respCall>>
    /\ UNCHANGED normVars
    /\ UNCHANGED pairVars
    /\ UNCHANGED uploadVars

\* Cancel where the handlers catch the cancellation as they catch Exception
CancelAsFailure ==
    /\ pc \in {"s1_wait", "s2_wait", "s3_wait"}
    /\ inflight' = inflight - 1
    /\ \/ pc = "s1_wait" /\ Fail(1, "CancelledError", "s2")
       \/ pc = "s2_wait" /\ Fail(2, "CancelledError", "s3")
       \/ pc = "s3_wait" /\ Raise(3, "CancelledError", <<>>)
    /\ UNCHANGED <<calls, respCall>>
    /\ UNCHANGED normVars
    /\ UNCHANGED pairVars
    /\ UNCHANGED uploadVars

\* the extraction is cancelled while a model call is in flight: invoke
\* raises KeyboardInterrupt or CancelledError, which are BaseException and
\* not Exception, so neither handler catches it and it leaves the function
Cancel ==
    /\ pc \in {"s1_wait", "s2_wait", "s3_wait"}
    /\ pc' = "cancelled"
    /\ inflight' = inflight - 1
    /\ UNCHANGED <<calls, respCall, failed, lastFailure, succeededBy, result, error>>
    /\ UNCHANGED normVars
    /\ UNCHANGED pairVars
    /\ UNCHANGED uploadVars

\* upload_pdf is not running
UploadIdle ==
    /\ upc = "idle"
    /\ ufile = None
    /\ ucontent = None
    /\ utext = None
    /\ ucalls = <<>>
    /\ uresp = None
    /\ uprev = None

Init ==
    /\ pc = "start"
    /\ calls = <<>>
    /\ inflight = 0
    /\ respCall = 0
    /\ failed = {}
    /\ lastFailure = None
    /\ succeededBy = 0
    /\ result = None
    /\ error = None
    /\ NormIdle
    /\ other = None
    /\ turn = 0
    /\ UploadIdle

Next ==
    \/ S1Issue
    \/ S1Respond
    \/ S2Issue
    \/ S2Respond
    \/ S3Issue
    \/ S3Respond
    \/ Level1
    \/ Level2
    \/ Level3Json
    \/ Level3Generic
    \/ Level4
    \/ S3Validate
    \/ Cancel

Spec == Init /\ [][Next]_vars

-----------------------------------------------------------------------------
(* Two calls of extract_structured_cv_data running together, in two        *)
(* threads: every variable above is a local variable of the call, so each  *)
(* call has its own; a context switch puts the running call's variables    *)
(* aside and brings back those of the other call                           *)

Locals ==
    [pc |-> pc, calls |-> calls, inflight |-> inflight, respCall |-> respCall,
     failed |-> failed, lastFailure |-> lastFailure, succeededBy |-> succeededBy,
     result |-> result, error |-> error, npc |-> npc, text |-> text,
     normFrom |-> normFrom, attempted |-> attempted, nfailed |-> nfailed,
     patterns |-> patterns, ntier |-> ntier, nval |-> nval, excerpt |-> excerpt]

Entry ==
    [pc |-> "start", calls |-> <<>>, inflight |-> 0, respCall |-> 0,
     failed |-> {}, lastFailure |-> None, succeededBy |-> 0,
     result |-> None, error |-> None, npc |-> "idle", text |-> <<>>,
     normFrom |-> 0, attempted |-> {}, nfailed |-> {},
     patterns |-> <<>>, ntier |-> 0, nval |-> None, excerpt |-> <<>>]

Swap ==
    /\ turn \in {1, 2}
    /\ turn' = 3 - turn
    /\ other' = Locals
    /\ pc' = other.pc
    /\ calls' = other.calls
    /\ inflight' = other.inflight
    /\ respCall' = other.respCall
    /\ failed' = other.failed
    /\ lastFailure' = other.lastFailure
    /\ succeededBy' = other.succeededBy
    /\ result' = other.result
    /\ error' = other.error
    /\ npc' = other.npc
    /\ text' = other.text
    /\ normFrom' = other.normFrom
    /\ attempted' = other.attempted
    /\ nfailed' = other.nfailed
    /\ patterns' = other.patterns
    /\ ntier' = other.ntier
    /\ nval' = other.nval
    /\ excerpt' = other.excerpt
    /\ UNCHANGED uploadVars

InitPair ==
    /\ pc = "start"
    /\ calls = <<>>
    /\ inflight = 0
    /\ respCall = 0
    /\ failed = {}
    /\ lastFailure = None
    /\ succeededBy = 0
    /\ result = None
    /\ error = None
    /\ NormIdle
    /\ other = Entry
    /\ turn = 1
    /\ UploadIdle

NextPair ==
    \/ Next
    \/ Swap

SpecPair == InitPair /\ [][NextPair]_vars

\* the steps the interpreter takes by itself; the steps S1Respond, S2Respond
\* and S3Respond wait for the model backend: get_llm gives ChatOpenAI no
\* timeout, so nothing in the code makes a call end
CodeStep ==
    \/ S1Issue
    \/ S2Issue
    \/ S3Issue
    \/ ParseJsonResponse
    \/ S3Validate

\* the interpreter keeps running; the backend answers or not
SpecLive == Init /\ [][Next]_vars /\ WF_vars(CodeStep)

-----------------------------------------------------------------------------
(* Properties of extract_structured_cv_data                                *)

Range(f) == {f[i] : i \in DOMAIN f}
CallsOf(strategy) == {i \in DOMAIN calls : calls[i] = strategy}
Terminal == pc \in {"returned", "failed"}

\* C1: the strategies are called in the order 1, 2, 3; the call of a
\* strategy is issued only after every earlier strategy has failed; once a
\* strategy has returned a record no further call has been issued.
C1_StrategyOrder ==
    /\ \A i \in DOMAIN calls : calls[i] = i /\ i <= 3
    /\ \A i \in DOMAIN calls : \A k \in 1..(i - 1) : k \in failed
    /\ succeededBy # 0 => (Len(calls) = succeededBy /\ pc = "returned")

C1_Witness ==
    /\ pc = "returned"
    /\ succeededBy = 3
    /\ calls = <<1, 2, 3>>

\* C2: whatever strategy 1 raises, strategy 2 is attempted next, and whatever
\* strategy 2 raises, strategy 3 is attempted next; a record is returned as
\* soon as a strategy reached in that order succeeds, and the call fails only
\* when all three strategies have failed.
C2_Fallback ==
    /\ 1 \in failed => (pc = "s2" \/ 2 \in Range(calls))
    /\ 2 \in failed => (pc = "s3" \/ 3 \in Range(calls))
    /\ pc = "failed" <=> failed = {1, 2, 3}
    /\ pc = "returned" <=>
          /\ succeededBy \in Range(calls)
          /\ failed = 1..(succeededBy - 1)
          /\ result # None
    /\ Terminal \/ (succeededBy = 0 /\ result = None /\ error = None)

C2_Witness ==
    /\ pc = "returned"
    /\ succeededBy = 3
    /\ failed = {1, 2}
    /\ lastFailure = [strategy |-> 2, kind |-> "ValidationError"]

\* the exception classes that are ValueError: pydantic's ValidationError
\* derives from it
IsValueError(type) == type \in {"ValueError", "ValidationError"}

\* C3: when all three strategies have failed, the exception the caller gets
\* is of the one terminal type (ValueError, which the docstring names),
\* whatever made strategy 3 fail.
C3_SingleErrorType ==
    pc = "failed" => IsValueError(error.type)

\* C4: every strategy attempted has issued exactly one model call, at most
\* three calls are issued, at most one is in flight, and the text given to
\* parse_json_response is the answer to strategy 3's own call.
C4_OneCallPerStrategy ==
    /\ Len(calls) <= 3
    /\ inflight \in {0, 1}
    /\ \A k \in 1..3 : Cardinality(CallsOf(k)) <= 1
    /\ \A k \in failed \cup ({succeededBy} \ {0}) : Cardinality(CallsOf(k)) = 1
    /\ pc \in {"s1_wait", "s2_wait", "s3_wait"} <=> inflight = 1
    /\ npc # "idle" =>
          /\ normFrom = Len(calls)
          /\ calls[normFrom] = 3
          /\ respCall = normFrom

C4_Witness ==
    /\ pc = "s3_parse"
    /\ npc = "ret"
    /\ calls = <<1, 2, 3>>
    /\ normFrom = 3

\* a returned dictionary: the three fields and no other, a list of integers
\* and two lists of strings
WellTyped(rec) ==
    /\ DOMAIN rec = {"years_of_employment", "skills", "languages"}
    /\ \A i \in DOMAIN rec.years_of_employment : rec.years_of_employment[i].t = "int"
    /\ \A i \in DOMAIN rec.skills : rec.skills[i].t = "str"
    /\ \A i \in DOMAIN rec.languages : rec.languages[i].t = "str"

\* C5: every record returned, by whichever strategy, has the three fields,
\* each of its type; a value that fails validation on a field is returned
\* neither whole nor in part.
C5_ReturnedRecordTyped ==
    /\ result # None => (pc = "returned" /\ WellTyped(result))
    /\ pc = "returned" => result # None
    /\ (pc = "failed" /\ npc = "ret") => ~Validate(nval).ok
    /\ (pc = "returned" /\ succeededBy = 3) => result = Validate(nval).rec

\* strategy 3 returned the record of a value whose years were strings of digits
C5_Witness ==
    /\ pc = "returned"
    /\ succeededBy = 3
    /\ nval.years_of_employment = VList(<<VStr("2020")>>)
    /\ result.years_of_employment = <<VInt(2020)>>

\* C12: the exception the caller gets is the one strategy 3 ended with (the
\* model call's, parse_json_response's ValueError with its excerpt, or the
\* schema's rejection of the parsed value); while only strategies 1 and 2
\* have failed the caller has received nothing.
C12_TerminalCause ==
    /\ failed \subseteq {1, 2} => (error = None /\ pc # "failed")
    /\ error # None =>
          /\ pc = "failed"
          /\ error.strategy = 3
          /\ lastFailure = [strategy |-> 3, kind |-> error.type]
          /\ error.type \in {"ModelCallError", "ValueError", "TypeError", "ValidationError"}
          /\ error.type = "ModelCallError" => npc = "idle"
          /\ error.type = "ValueError" => (npc = "raise" /\ error.detail = excerpt)
          /\ error.type \in {"TypeError", "ValidationError"} =>
                (npc = "ret" /\ ~Validate(nval).ok /\ error.type = Validate(nval).kind)

\* all three strategies failed and the caller got strategy 3's TypeError
C12_Witness ==
    /\ pc = "failed"
    /\ failed = {1, 2, 3}
    /\ error.strategy = 3
    /\ error.type = "TypeError"
    /\ nval = VList(<<>>)

\* C14: when the extraction is cancelled while the call of strategy 1 or 2
\* is in flight, the call is over, the cancellation is not recorded as the
\* failure of the strategy, and nothing more happens: no later strategy is
\* called and no record or error is produced.
C14_CancelStops ==
    /\ [](lastFailure = None \/ lastFailure.kind # "CancelledError")
    /\ [](pc = "cancelled" =>
            /\ inflight = 0
            /\ calls # <<>>
            /\ calls[Len(calls)] \notin failed
            /\ failed = 1..(Len(calls) - 1)
            /\ respCall < Len(calls)
            /\ succeededBy = 0 /\ result = None /\ error = None)
    /\ [][pc # "cancelled"]_vars

\* strategy 1 failed and the call of strategy 2 was cancelled
C14_Witness ==
    /\ pc = "cancelled"
    /\ calls = <<1, 2>>
    /\ failed = {1}

\* C13: every extraction ends, with a record or with an exception, also when
\* the model backend never answers.
C13_EventuallyEnds == <>(Terminal \/ pc = "cancelled")

-----------------------------------------------------------------------------
(* Properties of parse_json_response                                       *)

NormDone == npc \in {"ret", "raise"}

\* what each level finds in a text, taken alone
SpanParse(s, m) ==
    IF m.found THEN JsonLoads(SubSeq(s, m.from, m.to)) ELSE [ok |-> FALSE, val |-> None]
DirectParse(s) == JsonLoads(Strip(s))
GreedyParse(s) == SpanParse(s, GreedySearch(s))
JsonFenceParse(s) == SpanParse(s, FenceSearch(s, TRUE))
BareFenceParse(s) == SpanParse(s, FenceSearch(s, FALSE))
FenceParse(s) == IF JsonFenceParse(s).ok THEN JsonFenceParse(s) ELSE BareFenceParse(s)

\* the first level, in the order 1, 2, 3, whose candidate parses (0: none)
FirstParse(s) ==
    IF DirectParse(s).ok THEN [tier |-> 1, val |-> DirectParse(s).val]
    ELSE IF GreedyParse(s).ok THEN [tier |-> 2, val |-> GreedyParse(s).val]
    ELSE IF FenceParse(s).ok THEN [tier |-> 3, val |-> FenceParse(s).val]
    ELSE [tier |-> 0, val |-> None]

\* C6: a level is entered only when every earlier level has failed to parse;
\* the value returned is the one parsed by the first level, in the order
\* direct parse, greedy span, fenced block, whose candidate parses; a greedy
\* span that does not parse leads to the fenced-block level.
C6_TierOrder ==
    /\ \A k \in attempted : \A j \in 1..(k - 1) : j \in nfailed
    /\ npc = "ret" =>
          /\ ntier \in 1..3
          /\ ntier = FirstParse(text).tier
          /\ nval = FirstParse(text).val
    /\ npc = "raise" => FirstParse(text).tier = 0
    /\ (2 \in nfailed /\ GreedySearch(text).found) => (npc = "t3a" \/ 3 \in attempted)

\* the greedy span over-captured and a fence gave the value
C6_Witness ==
    /\ npc = "ret"
    /\ ntier = 3
    /\ GreedySearch(text).found
    /\ 2 \in nfailed

\* a later level or pattern than the one that returned would have given a
\* value the schema accepts
LaterLevelValid ==
    \/ /\ ntier = 1
       /\ \/ (GreedyParse(text).ok /\ Validate(GreedyParse(text).val).ok)
          \/ (FenceParse(text).ok /\ Validate(FenceParse(text).val).ok)
    \/ /\ ntier = 2
       /\ FenceParse(text).ok
       /\ Validate(FenceParse(text).val).ok
    \/ /\ ntier = 3
       /\ patterns = <<"json">>
       /\ BareFenceParse(text).ok
       /\ Validate(BareFenceParse(text).val).ok

\* C7: when a level returns a value the schema rejects, strategy 3 fails with
\* the schema's own exception (ValidationError, or TypeError for a value that
\* is no object), never with the ValueError of level 4, and no level after
\* the one that returned is entered.
C7_ValidationNotRetried ==
    /\ (npc = "ret" /\ ~Validate(nval).ok) =>
          /\ pc \in {"idle", "s3_parse", "failed"}
          /\ attempted = 1..ntier
          /\ excerpt = <<>>
    /\ (pc = "failed" /\ npc = "ret") =>
          /\ ~Validate(nval).ok
          /\ error.type \in {"ValidationError", "TypeError"}
          /\ error.type = Validate(nval).kind
          /\ error.strategy = 3
    /\ (pc = "failed" /\ error.type = "ValueError") => npc = "raise"

C7_Witness ==
    /\ pc = "failed"
    /\ npc = "ret"
    /\ error.type = "ValidationError"
    /\ LaterLevelValid

\* C8: a text in which no level finds JSON that parses, the empty text
\* included, ends at level 4 with a ValueError that carries the first
\* min(200, length) characters of the text and no more.
C8_ParseFailureExcerpt ==
    /\ npc = "raise" =>
          /\ attempted = {1, 2, 3, 4}
          /\ nfailed = {1, 2, 3}
          /\ ntier = 0
          /\ nval = None
          /\ Len(excerpt) = (IF Len(text) < ExcerptLen THEN Len(text) ELSE ExcerptLen)
          /\ Len(excerpt) <= ExcerptLen
          /\ \A i \in 1..Len(excerpt) : excerpt[i] = text[i]
    /\ (NormDone /\ FirstParse(text).tier = 0) => npc = "raise"
    /\ (NormDone /\ text = <<>>) => npc = "raise"
    /\ (NormDone /\ ~DirectParse(text).ok /\ \A i \in 1..Len(text) : text[i] \notin {"{", "}", "F"})
          => npc = "raise"

C8_Witness ==
    /\ npc = "raise"
    /\ Len(text) > ExcerptLen
    /\ Len(excerpt) = ExcerptLen

\* the tokens of prose: no brace, no square bracket, no piece of JSON
ProseToks == {"p", "w", "F", "j", "n"}

\* s is prose, the JSON object s[a..b], prose; the prose is not blank
Embedded(s, a, b) ==
    /\ a < b
    /\ s[a] = "{"
    /\ s[b] = "}"
    /\ \A i \in (1..Len(s)) \ (a..b) : s[i] \in ProseToks
    /\ \E i \in (1..Len(s)) \ (a..b) : s[i] # "w"
    /\ JsonLoads(SubSeq(s, a, b)).ok

JsonFenceOpenAt(s, i) ==
    /\ i + 1 <= Len(s)
    /\ s[i] = "F"
    /\ s[i + 1] = "j"
    /\ SkipWs(s, i + 2) <= Len(s)
    /\ s[SkipWs(s, i + 2)] = "{"

\* the fence labelled json that opens at i wraps a valid JSON object that
\* ends at b
WrappedAt(s, i, b) ==
    /\ JsonFenceOpenAt(s, i)
    /\ b > SkipWs(s, i + 2)
    /\ s[b] = "}"
    /\ JsonLoads(SubSeq(s, SkipWs(s, i + 2), b)).ok
    /\ SkipWs(s, b + 1) <= Len(s)
    /\ s[SkipWs(s, b + 1)] = "F"

WrappedVal(s, i, b) == JsonLoads(SubSeq(s, SkipWs(s, i + 2), b)).val

\* C10 as claimed: whenever levels 1 and 2 fail, level 3 returns the object
\* wrapped in a fence labelled json, whatever else the text contains.
C10_AnyJsonFence ==
    (NormDone /\ {1, 2} \subseteq nfailed) =>
        \A i \in Indices(text, "F") : \A b \in Indices(text, "}") :
            WrappedAt(text, i, b) =>
                /\ npc = "ret"
                /\ ntier = 3
                /\ nval = WrappedVal(text, i, b)

\* C10, amended: whenever levels 1 and 2 fail, level 3 returns the object
\* wrapped in a fence labelled json, provided no fence labelled json and
\* followed by "{" opens earlier in the text.
C10_FirstJsonFence ==
    (NormDone /\ {1, 2} \subseteq nfailed) =>
        \A i \in Indices(text, "F") : \A b \in Indices(text, "}") :
            (/\ WrappedAt(text, i, b)
             /\ \A h \in 1..(i - 1) : ~JsonFenceOpenAt(text, h)) =>
                /\ npc = "ret"
                /\ ntier = 3
                /\ patterns = <<"json">>
                /\ nval = WrappedVal(text, i, b)

\* level 2 over-captured from a stray brace and the fence gave the record
C10_Witness ==
    /\ npc = "ret"
    /\ ntier = 3
    /\ GreedySearch(text).found
    /\ {1, 2} \subseteq nfailed
    /\ \E i \in Indices(text, "F") : \E b \in Indices(text, "}") :
          /\ WrappedAt(text, i, b)
          /\ \A h \in 1..(i - 1) : ~JsonFenceOpenAt(text, h)
          /\ Validate(WrappedVal(text, i, b)).ok
          /\ \E g \in 1..(i - 1) : text[g] \in {"{", "}"}

\* no two records have the same serialization
SerializeInjective == Cardinality(SerTexts) = Cardinality(Records)

\* C11: for every record r of the schema, parse_json_response on the JSON
\* serialization of r returns at level 1, no other level is entered, and the
\* validated value is r.
C11_RoundTrip ==
    /\ SerializeInjective
    /\ (NormDone /\ text \in SerTexts) =>
          /\ npc = "ret"
          /\ ntier = 1
          /\ attempted = {1}
          /\ nfailed = {}
          /\ Validate(nval).ok
          /\ Validate(nval).rec \in Records
          /\ Serialize(Validate(nval).rec) = text

\* the serialization of a record with two years and two skills came back
C11_Witness ==
    /\ npc = "ret"
    /\ ntier = 1
    /\ text \in SerTexts
    /\ Validate(nval).rec.years_of_employment = <<VInt(7), VInt(77)>>
    /\ Validate(nval).rec.skills = <<VStr("2020"), VStr("Go")>>
    /\ Validate(nval).rec.languages = <<>>

\* C16 as stated: the generic pattern is searched only when the text has no
\* fence labelled json, and a text whose json fence holds content that does
\* not parse is never answered from a generic fence.
C16_GenericOnlyWithoutJsonFence ==
    /\ "generic" \in Range(patterns) => ~FenceSearch(text, TRUE).found
    /\ (npc = "ret" /\ FenceSearch(text, TRUE).found /\ ~JsonFenceParse(text).ok) =>
          patterns # <<"json", "generic">>

\* C16: the json pattern is searched first and its content, when it parses,
\* is what level 3 returns; the generic pattern is searched when the json
\* pattern has no match or its content does not parse, and the content of
\* the generic fence, when it parses, is then returned.
C16_JsonFenceFirst ==
    /\ patterns \in {<<>>, <<"json">>, <<"json", "generic">>}
    /\ "generic" \in Range(patterns) => ~JsonFenceParse(text).ok
    /\ (npc = "ret" /\ ntier = 3 /\ JsonFenceParse(text).ok) =>
          (nval = JsonFenceParse(text).val /\ patterns = <<"json">>)
    /\ (NormDone /\ 3 \in attempted /\ ~JsonFenceParse(text).ok
          /\ BareFenceParse(text).ok) =>
          /\ npc = "ret"
          /\ ntier = 3
          /\ patterns = <<"json", "generic">>
          /\ nval = BareFenceParse(text).val

\* the json fence holds a word in braces, the generic fence after it holds
\* the record, which is returned
C16_Witness ==
    /\ npc = "ret"
    /\ ntier = 3
    /\ text = <<"{", "F", "j", "{", "p", "}", "F", "F", "{", "R", "}", "F">>
    /\ FenceSearch(text, TRUE).found
    /\ patterns = <<"json", "generic">>
    /\ Validate(nval).ok

\* C17: whenever parse_json_response returns, the value returned is a
\* dictionary (a JSON object), at level 1 as at the later levels.
C17_ReturnsObject ==
    npc = "ret" => nval.t = "dict"

-----------------------------------------------------------------------------
(* Properties of two extractions running together                          *)

\* what holds of one extraction, given the local variables l of its call:
\* the strategies it has called and the record or exception it ended with
\* follow from the answers to its own calls
OwnRun(l) ==
    /\ \A i \in DOMAIN l.calls : l.calls[i] = i
    /\ l.failed \subseteq Range(l.calls)
    /\ l.failed \in {{}, {1}, {1, 2}, {1, 2, 3}}
    /\ l.calls # <<>> => 1..(Len(l.calls) - 1) \subseteq l.failed
    /\ l.pc = "failed" <=> l.failed = {1, 2, 3}
    /\ l.pc = "returned" => (l.succeededBy = Len(l.calls) /\ l.succeededBy \notin l.failed)
    /\ l.npc # "idle" => (l.text \in PairTexts /\ l.normFrom = 3 /\ l.respCall = 3)
    /\ (l.pc = "returned" /\ l.succeededBy = 3) =>
          l.result = Validate(FirstParse(l.text).val).rec
    /\ (l.pc = "failed" /\ l.error.type = "ValueError") =>
          (FirstParse(l.text).tier = 0 /\ l.error.detail = Excerpt(l.text))

\* C15: with two extractions running together, under every interleaving, a
\* step of one extraction leaves every variable of the other as it was, a
\* context switch changes nothing but which one runs, and each extraction
\* goes through the strategies and ends as its own answers determine.
C15_Independent ==
    /\ [](OwnRun(Locals) /\ OwnRun(other))
    /\ [][/\ turn' = turn => other' = other
          /\ turn' # turn => (other' = Locals /\ Locals' = other)]_vars

\* interleaved: one extraction has returned the record of its strategy 3
\* and the other one has failed on its own strategy 3 text
C15_Witness ==
    /\ turn = 2
    /\ pc = "returned"
    /\ succeededBy = 3
    /\ text = <<"p", "{", "R", "}">>
    /\ other.pc = "failed"
    /\ other.text = <<"p">>
    /\ other.error.type = "ValueError"

-----------------------------------------------------------------------------
(* parse_json_response on its own: one call on each text                   *)

OrchIdle ==
    /\ pc = "idle"
    /\ calls = <<>>
    /\ inflight = 0
    /\ respCall = 0
    /\ failed = {}
    /\ lastFailure = None
    /\ succeededBy = 0
    /\ result = None
    /\ error = None

InitNorm ==
    /\ OrchIdle
    /\ (text \in NormTexts \/ text \in ShapedTexts)
    /\ npc = "t1"
    /\ normFrom = 0
    /\ attempted = {}
    /\ nfailed = {}
    /\ patterns = <<>>
    /\ ntier = 0
    /\ nval = None
    /\ excerpt = <<>>
    /\ other = None
    /\ turn = 0
    /\ UploadIdle

SpecNorm == InitNorm /\ [][ParseJsonResponse]_vars

-----------------------------------------------------------------------------
(* The upload handler: upload_pdf, read_and_validate_file and              *)
(* extract_text_from_pdf.  A filename is a sequence of characters.  The    *)
(* bytes of a file are a sequence of tokens: "H" is the header %PDF-,      *)
(* "g" a page that holds text, "x" any other bytes.                        *)

\* tokens in the bytes of a file
MaxBytes == 2

FileNames ==
    {<<"c", "v", ".", "p", "d", "f">>,
     <<"C", "V", ".", "P", "D", "F">>,
     <<"c", "v", ".", "t", "x", "t">>,
     <<"p", "d", "f">>}

ByteToks == {"H", "g", "x"}
Contents == UNION {[1..n -> ByteToks] : n \in 0..MaxBytes}

\* str.lower
LowerChar(c) ==
    CASE c = "C" -> "c"
      [] c = "V" -> "v"
      [] c = "P" -> "p"
      [] c = "D" -> "d"
      [] c = "F" -> "f"
      [] OTHER -> c
Lower(name) == [i \in 1..Len(name) |-> LowerChar(name[i])]

\* str.endswith
EndsWith(name, suffix) ==
    /\ Len(name) >= Len(suffix)
    /\ SubSeq(name, Len(name) - Len(suffix) + 1, Len(name)) = suffix

DotPdf == <<".", "p", "d", "f">>

\* magic.from_buffer(content, mime=True)
Sniff(content) ==
    IF content = <<>> THEN "application/x-empty"
    ELSE IF content[1] = "H" THEN "application/pdf"
    ELSE "application/octet-stream"

\* the text of the pages among the bytes
RECURSIVE PageText(_)
PageText(content) ==
    IF content = <<>> THEN <<>>
    ELSE (IF Head(content) = "g" THEN <<"p">> ELSE <<>>) \o PageText(Tail(content))

\* extract_text_from_pdf: fitz opens the document, loads page 0 and gives
\* its text; without a first page load_page raises
ExtractTextFromPdf(content) ==
    IF Len(content) >= 2 /\ content[1] = "H" /\ content[2] = "g"
    THEN [ok |-> TRUE, text |-> PageText(content)]
    ELSE [ok |-> FALSE, text |-> <<>>]

\* the request is over
Answer(resp) ==
    /\ uresp' = resp
    /\ upc' = "wait"

\* the upload and the status of the request that has been answered
Served(file, resp) ==
    [filename |-> file.filename, bytes |-> file.bytes, status |-> resp.status]

\* the next request arrives with an upload
Receive ==
    /\ upc = "wait"
    /\ \E name \in FileNames : \E bytes \in Contents :
          ufile' = [filename |-> name, bytes |-> bytes]
    /\ upc' = "name"
    /\ ucontent' = None
    /\ utext' = None
    /\ ucalls' = <<>>
    /\ uresp' = None
    /\ uprev' = IF uresp = None THEN uprev ELSE Served(ufile, uresp)
    /\ UNCHANGED <<orchVars, normVars, pairVars>>

\* CheckName that compares the filename as it is written
CheckNameCaseSensitive ==
    /\ upc = "name"
    /\ IF EndsWith(ufile.filename, DotPdf)
       THEN /\ upc' = "read"
            /\ UNCHANGED uresp
       ELSE Answer([status |-> 400, detail |-> "Only PDF files are allowed"])
    /\ UNCHANGED <<ufile, ucontent, utext, ucalls, uprev>>
    /\ UNCHANGED <<orchVars, normVars, pairVars>>

\* read_and_validate_file: the check of the filename
CheckName ==
    /\ upc = "name"
    /\ IF EndsWith(Lower(ufile.filename), DotPdf)
       THEN /\ upc' = "read"
            /\ UNCHANGED uresp
       ELSE Answer([status |-> 400, detail |-> "Only PDF files are allowed"])
    /\ UNCHANGED <<ufile, ucontent, utext, ucalls, uprev>>
    /\ UNCHANGED <<orchVars, normVars, pairVars>>

\* read_and_validate_file: content = await file.read()
ReadFile ==
    /\ upc = "read"
    /\ ucontent' = ufile.bytes
    /\ ucalls' = Append(ucalls, "read")
    /\ upc' = "sniff"
    /\ UNCHANGED <<ufile, utext, uresp, uprev>>
    /\ UNCHANGED <<orchVars, normVars, pairVars>>

\* SniffType that returns the content whatever its type
SniffTypeIgnored ==
    /\ upc = "sniff"
    /\ ucalls' = Append(ucalls, "magic")
    /\ upc' = "extract"
    /\ UNCHANGED uresp
    /\ UNCHANGED <<ufile, ucontent, utext, uprev>>
    /\ UNCHANGED <<orchVars, normVars, pairVars>>

\* read_and_validate_file: the check of the sniffed type, return content
SniffType ==
    /\ upc = "sniff"
    /\ ucalls' = Append(ucalls, "magic")
    /\ IF Sniff(ucontent) = "application/pdf"
       THEN /\ upc' = "extract"
            /\ UNCHANGED uresp
       ELSE Answer([status |-> 400, detail |-> "File is not a valid PDF"])
    /\ UNCHANGED <<ufile, ucontent, utext, uprev>>
    /\ UNCHANGED <<orchVars, normVars, pairVars>>

\* upload_pdf: extracted_text = extract_text_from_pdf(content); an exception
\* of fitz leaves the handler and the framework answers 500
ExtractText ==
    /\ upc = "extract"
    /\ ucalls' = Append(ucalls, "extract")
    /\ LET r == ExtractTextFromPdf(ucontent)
       IN IF r.ok
          THEN /\ utext' = r.text
               /\ upc' = "respond"
               /\ UNCHANGED uresp
          ELSE /\ Answer([status |-> 500, detail |-> "Internal Server Error"])
               /\ UNCHANGED utext
    /\ UNCHANGED <<ufile, ucontent, uprev>>
    /\ UNCHANGED <<orchVars, normVars, pairVars>>

\* upload_pdf: return JSONResponse(...)
Respond ==
    /\ upc = "respond"
    /\ Answer([status |-> 200,
               message |-> "PDF uploaded successfully",
               filename |-> ufile.filename,
               size |-> Len(ucontent),
               extracted_text |-> utext])
    /\ UNCHANGED <<ufile, ucontent, utext, ucalls, uprev>>
    /\ UNCHANGED <<orchVars, normVars, pairVars>>

UploadPdf ==
    \/ Receive
    \/ CheckName
    \/ ReadFile
    \/ SniffType
    \/ ExtractText
    \/ Respond

InitUpload ==
    /\ OrchIdle
    /\ NormIdle
    /\ other = None
    /\ turn = 0
    /\ upc = "wait"
    /\ ufile = None
    /\ ucontent = None
    /\ utext = None
    /\ ucalls = <<>>
    /\ uresp = None
    /\ uprev = None

SpecUpload == InitUpload /\ [][UploadPdf]_vars

-----------------------------------------------------------------------------
(* Properties of the upload handler                                        *)

Rejected(entry) == entry.status = 400

\* the requests answered: the one before, and this one once it has its
\* response
Done ==
    (IF uprev = None THEN {} ELSE {uprev})
        \cup (IF uresp = None THEN {} ELSE {Served(ufile, uresp)})
NameOk(name) == EndsWith(Lower(name), DotPdf)

\* C18 as stated: whether an upload is rejected follows from its bytes, not
\* from its filename: two uploads with the same bytes are both rejected or
\* both not.
C18_DecidedByContent ==
    \A a \in Done : \A b \in Done :
        a.bytes = b.bytes => (Rejected(a) <=> Rejected(b))

\* C18: an upload passes validation exactly when its filename ends with
\* .pdf, in any case of letters, and its bytes are sniffed as
\* application/pdf; two uploads with the same bytes and filenames that both
\* end with .pdf are both rejected or both not; no upload passes on its
\* filename alone.
C18_NameAndContent ==
    /\ \A a \in Done :
          ~Rejected(a) <=> (NameOk(a.filename) /\ Sniff(a.bytes) = "application/pdf")
    /\ \A a \in Done : \A b \in Done :
          (a.bytes = b.bytes /\ NameOk(a.filename) /\ NameOk(b.filename)) =>
              (Rejected(a) <=> Rejected(b))

\* the same bytes of a PDF were answered 200 as cv.pdf and 400 as cv.txt
C18_Witness ==
    /\ uprev = [filename |-> <<"c", "v", ".", "p", "d", "f">>,
                bytes |-> <<"H", "g">>, status |-> 200]
    /\ uresp # None
    /\ Served(ufile, uresp) = [filename |-> <<"c", "v", ".", "t", "x", "t">>,
                                 bytes |-> <<"H", "g">>, status |-> 400]

\* C19: when an upload has passed validation and text extraction, the
\* extraction by the language model has been called and the response holds
\* the fields years_of_employment, skills and languages.
C19_UploadReturnsFields ==
    (uresp # None /\ uresp.status = 200) =>
        /\ pc # "idle"
        /\ calls # <<>>
        /\ {"years_of_employment", "skills", "languages"} \subseteq DOMAIN uresp

\* C20: extract_text_from_pdf is called only after the filename check, the
\* read and the type check have passed, on the bytes that were read; an
\* upload that fails a check is answered 400 with no call of
\* extract_text_from_pdf, and with no read when it is the filename check
\* that fails.
C20_ExtractAfterValidation ==
    /\ "extract" \in Range(ucalls) =>
          /\ ucalls = <<"read", "magic", "extract">>
          /\ NameOk(ufile.filename)
          /\ ucontent = ufile.bytes
          /\ Sniff(ucontent) = "application/pdf"
    /\ upc = "extract" => (NameOk(ufile.filename) /\ Sniff(ucontent) = "application/pdf")
    /\ (uresp # None /\ uresp.status = 400) =>
          /\ "extract" \notin Range(ucalls)
          /\ utext = None
    /\ (ufile # None /\ upc # "name" /\ ~NameOk(ufile.filename)) =>
          /\ uresp = [status |-> 400, detail |-> "Only PDF files are allowed"]
          /\ ucalls = <<>>
          /\ ucontent = None
    /\ (ufile # None /\ NameOk(ufile.filename) /\ "magic" \in Range(ucalls)
          /\ Sniff(ufile.bytes) # "application/pdf") =>
          /\ uresp = [status |-> 400, detail |-> "File is not a valid PDF"]
          /\ ucalls = <<"read", "magic">>

\* a file named cv.pdf whose bytes are no PDF was read, sniffed and
\* answered 400
C20_Witness ==
    /\ uresp = [status |-> 400, detail |-> "File is not a valid PDF"]
    /\ ufile = [filename |-> <<"c", "v", ".", "p", "d", "f">>, bytes |-> <<"x", "g">>]
    /\ ucalls = <<"read", "magic">>
    /\ upc = "wait"

====
